---- MODULE Spec2Model ----
(***************************************************************************)
(* A model of src/thpool.cpp: a fixed-size pool of worker threads behind   *)
(* one shared FIFO job queue (jobqueue), the level signal has_jobs (bsem), *)
(* the countdown signal (dec_bsem), thpool_wait, thpool_wait_cond and      *)
(* thpool_destroy.                                                         *)
(*                                                                         *)
(* Granularity.  A critical section that only touches data guarded by the  *)
(* mutex it holds is one step (jobqueue_push, jobqueue_pull, bsem_post_all,*)
(* dec_bsem_post, the working-count sections of thread_do).  Reads the     *)
(* code makes WITHOUT the guarding mutex are steps of their own: the reads *)
(* of threads_keepalive (l.450, l.454), of num_threads_alive (l.227,       *)
(* l.316, l.323), of num_threads_working (l.353) and of jobqueue.len       *)
(* (l.283, l.523).  thcount_lock is an explicit variable because           *)
(* thpool_wait holds it across steps and because thpool_destroy releases   *)
(* it while a worker may still own it (l.484-486 against l.323-338).       *)
(***************************************************************************)
EXTENDS Integers, Sequences, FiniteSets

\* ------------------------------------------------------------------ bounds
MaxThreads == 2        \* largest num_threads passed to thpool_init
MaxNull    == 1        \* calls with a null signal per caller
MaxJobs    == 2        \* jobs submitted in all, by at most so many callers

Workers   == 1..MaxThreads
Producers == 1..MaxJobs
Jobs      == 1..MaxJobs
Waiters   == {1, 2}                  \* caller threads of thpool_wait
NULL      == 0
NoThread  == <<"none", 0>>


VARIABLES
  num_threads_arg,      \* the argument thpool_init was called with
  num_threads,          \* thpool_init's argument after l.176-178
  quota,                \* quota[p]: how many jobs caller p is going to submit
  carriers,             \* the jobs submitted through thpool_add_work_with_sem
  created,              \* thpool_init has returned (l.227-229)
  num_threads_alive,    \* thpool_.num_threads_alive
  num_threads_working,  \* thpool_.num_threads_working
  threads_keepalive,    \* thpool_.threads_keepalive
  thcount_lock,         \* owner of thpool_.thcount_lock, or NoThread
  front, rear, prev, len,   \* jobqueue: front, rear, job.prev links, len
  has_jobs_v,           \* jobqueue.has_jobs->v
  signal_,              \* job.signal_ of every allocated job (TRUE: the signal)
  sem_v,                \* v of the countdown signal made by thpool_decsem_init
  wpc, job_p,           \* per worker: position in thread_do, its job_p
  submitted,            \* per producer: jobs whose thpool_add_work returned
  ret,                  \* per producer: its calls so far, << what, return code >>
  apc,                  \* per caller of thpool_wait: its position
  nworking,             \* per such caller: what thpool_num_threads_working read
  cpc,                  \* the caller of thpool_wait_cond: its position
  dpc,                  \* the caller of thpool_destroy: its position
  released,             \* destroy has released the queue, the locks, the pool
  pushed, pulled,       \* history: jobs in the order pushed / pulled
  observed,             \* history: jobs in the order their callable ran
  asnap,                \* history: jobs pushed when thpool_wait was called
  aquiet,               \* history: every caller was done when thpool_wait was called
  touched               \* history: a worker step used pool state after its release

vars == << num_threads_arg, ret, num_threads, quota, carriers, created, num_threads_alive,
           num_threads_working, threads_keepalive, thcount_lock, front, rear,
           prev, len, has_jobs_v, signal_, sem_v, wpc, job_p, submitted, apc,
           nworking, cpc, dpc, released, pushed, pulled, observed, asnap, aquiet,
           touched >>

poolv  == << num_threads_arg, num_threads, quota, carriers >>
countv == << num_threads_alive, num_threads_working >>
queuev == << front, rear, prev, len, has_jobs_v, pushed, pulled >>
waitv  == << apc, nworking, asnap, aquiet >>
destv  == << dpc, released, threads_keepalive >>

\* ------------------------------------------------------------- small helpers
Range(s) == { s[i] : i \in 1..Len(s) }
Times(s, j) == Cardinality({ i \in 1..Len(s) : s[i] = j })
IsPrefix(s, t) == Len(s) <= Len(t) /\ \A i \in 1..Len(s) : s[i] = t[i]
W(w) == <<"worker", w>>
A(a) == <<"waiter", a>>
AllSubmitted == \A p \in Producers : submitted[p] = quota[p]
\* The job that caller p submits as its i-th: the callers submit quota[p] = N
\* jobs each, caller 1 the jobs 1..N, caller 2 the jobs N+1..2N, ...
JobId(p, i) == (p - 1) * quota[p] + i

\* ------------------------------------------------------------------ signals
\* bsem_wait, l.657: the wait loop's condition.
bsem_wait_blocks(v) == v # 1

\* Faulty variant: the wait loop lets the caller through one post early.
dec_bsem_wait_blocks_early(v) == v > 1

\* dec_bsem_wait, l.702: the wait loop's condition.
dec_bsem_wait_blocks(v) == v # 0

\* Faulty variant: the signal is sent one post early, never at 0.
dec_bsem_post_signals_early(v) == v = 1

\* dec_bsem_post, l.687: the condition of the pthread_cond_signal.
dec_bsem_post_signals(v) == v = 0

\* Faulty variant: the loop looks at the queue length only.
thpool_wait_blocks_len_only(l, working) == l # 0

\* Faulty variant: the loop test never lets the caller through.
thpool_wait_blocks_always(l, working) == TRUE

\* thpool_wait, l.283: the wait loop's condition.
thpool_wait_blocks(l, working) == l # 0 \/ working # 0

\* Faulty variant: the signal on threads_all_idle is never sent.
all_idle_signals_never(working) == FALSE

\* thread_do, l.476: the condition of the signal on threads_all_idle.
all_idle_signals(working) == working = 0

\* Faulty variant: the broadcast reaches no parked worker.
Broadcast_lost(pc) == pc

\* pthread_cond_broadcast on has_jobs->cond (l.650): every parked worker is
\* released from pthread_cond_wait and re-runs the loop of bsem_wait.
Broadcast(pc) == [w \in Workers |-> IF pc[w] = "parked" THEN "bsem_wait" ELSE pc[w]]

\* ---------------------------------------------------------------- job queue
\* jobqueue_push, l.542-554: the new rear link.
push_prev(pv, l, r, j) ==
  IF l = 0 THEN [pv EXCEPT ![j] = NULL]
           ELSE [pv EXCEPT ![j] = NULL, ![r] = j]

\* Faulty variant: the case split is lost, every push sets front.
push_front_always(f, l, j) == j

\* jobqueue_push, l.545/l.551: the new front.
push_front(f, l, j) == IF l = 0 THEN j ELSE f

\* Faulty variant: the front job is not unlinked.
pull_front_keeps(f, l, pv) == IF l = 1 THEN NULL ELSE f

\* jobqueue_pull, l.573-588: the new front.
pull_front(f, l, pv) == IF l = 0 THEN f ELSE IF l = 1 THEN NULL ELSE pv[f]

\* jobqueue_pull, l.573-588: the new rear.
pull_rear(r, l) == IF l = 1 THEN NULL ELSE r

\* jobqueue_pull, l.573-588: the new len.
pull_len(l) == IF l = 0 THEN 0 ELSE IF l = 1 THEN 0 ELSE l - 1

\* Faulty variant: the pull that empties the queue leaves has_jobs->v at 1.
pull_has_jobs_kept(newlen) == IF newlen = 0 THEN 1 ELSE 1

\* jobqueue_pull, l.590-597: has_jobs->v after the pull.
pull_has_jobs(newlen) == IF newlen = 0 THEN 0 ELSE 1

\* Faulty variant: the new job is linked in at the front of the queue.
jobqueue_push_lifo(j) ==
  /\ prev' = [prev EXCEPT ![j] = front]
  /\ front' = j
  /\ rear' = (IF len = 0 THEN j ELSE rear)
  /\ len' = len + 1
  /\ has_jobs_v' = 1
  /\ wpc' = Broadcast(wpc)
  /\ pushed' = Append(pushed, j)
  /\ UNCHANGED pulled

\* jobqueue_push (l.537-558) of job j by a caller: link, len++, bsem_post_all.
jobqueue_push(j) ==
  /\ prev' = push_prev(prev, len, rear, j)
  /\ front' = push_front(front, len, j)
  /\ rear' = j
  /\ len' = len + 1
  /\ has_jobs_v' = 1
  /\ wpc' = Broadcast(wpc)
  /\ pushed' = Append(pushed, j)
  /\ UNCHANGED pulled

\* jobqueue_pull (l.568-601): unlink the front job, repair has_jobs->v; the
\* job returned is front (NULL when the queue is empty).  The bsem_post_all of
\* l.596 releases the parked workers when jobs remain.
jobqueue_pull ==
  LET newlen == pull_len(len) IN
  /\ front' = pull_front(front, len, prev)
  /\ rear' = pull_rear(rear, len)
  /\ len' = newlen
  /\ has_jobs_v' = pull_has_jobs(newlen)
  /\ pulled' = IF front # NULL THEN Append(pulled, front) ELSE pulled
  /\ UNCHANGED << prev, pushed >>

\* ------------------------------------------------------------------ workers
\* thread_do, l.446-448: mark the thread as alive.
thread_do_alive(w) ==
  /\ wpc[w] = "alive"
  /\ thcount_lock = NoThread
  /\ num_threads_alive' = num_threads_alive + 1
  /\ wpc' = [wpc EXCEPT ![w] = "loop"]
  /\ UNCHANGED << poolv, ret, created, num_threads_working, thcount_lock, queuev,
                  signal_, sem_v, job_p, submitted, waitv, cpc, destv,
                  observed, touched >>

\* Faulty variant: the loop never looks at threads_keepalive.
thread_do_loop_forever(w) ==
  /\ wpc[w] = "loop"
  /\ wpc' = [wpc EXCEPT ![w] = "bsem_wait"]
  /\ UNCHANGED << poolv, ret, created, countv, thcount_lock, queuev, signal_, sem_v,
                  job_p, submitted, waitv, cpc, destv, observed, touched >>

\* thread_do, l.450: the loop's test of threads_keepalive.
thread_do_loop(w) ==
  /\ wpc[w] = "loop"
  /\ wpc' = [wpc EXCEPT ![w] = IF threads_keepalive = 1 THEN "bsem_wait" ELSE "exit"]
  /\ UNCHANGED << poolv, ret, created, countv, thcount_lock, queuev, signal_, sem_v,
                  job_p, submitted, waitv, cpc, destv, observed, touched >>

\* bsem_wait, l.655-662: pass when v = 1, else park in pthread_cond_wait.
bsem_wait(w) ==
  /\ wpc[w] = "bsem_wait"
  /\ wpc' = [wpc EXCEPT ![w] = IF bsem_wait_blocks(has_jobs_v) THEN "parked" ELSE "check"]
  /\ UNCHANGED << poolv, ret, created, countv, thcount_lock, queuev, signal_, sem_v,
                  job_p, submitted, waitv, cpc, destv, observed, touched >>

\* Faulty variant: the worker goes on without the test of l.454.
thread_do_check_skipped(w) ==
  /\ wpc[w] = "check"
  /\ wpc' = [wpc EXCEPT ![w] = "inc"]
  /\ UNCHANGED << poolv, ret, created, countv, thcount_lock, queuev, signal_, sem_v,
                  job_p, submitted, waitv, cpc, destv, observed, touched >>

\* thread_do, l.454: the second test of threads_keepalive.
thread_do_check(w) ==
  /\ wpc[w] = "check"
  /\ wpc' = [wpc EXCEPT ![w] = IF threads_keepalive = 1 THEN "inc" ELSE "loop"]
  /\ UNCHANGED << poolv, ret, created, countv, thcount_lock, queuev, signal_, sem_v,
                  job_p, submitted, waitv, cpc, destv, observed, touched >>

\* Faulty variant: the worker goes on to pull without its increment, which
\* leaves the decrement of l.475 unpaired.
thread_do_inc_unpaired(w) ==
  /\ wpc[w] = "inc"
  /\ thcount_lock = NoThread
  /\ wpc' = [wpc EXCEPT ![w] = "pull"]
  /\ UNCHANGED << poolv, ret, created, countv, thcount_lock, queuev,
                  signal_, sem_v, job_p, submitted, waitv, cpc, destv,
                  observed, touched >>

\* thread_do, l.456-458: num_threads_working++ under thcount_lock.
thread_do_inc(w) ==
  /\ wpc[w] = "inc"
  /\ thcount_lock = NoThread
  /\ num_threads_working' = num_threads_working + 1
  /\ wpc' = [wpc EXCEPT ![w] = "pull"]
  /\ UNCHANGED << poolv, ret, created, num_threads_alive, thcount_lock, queuev,
                  signal_, sem_v, job_p, submitted, waitv, cpc, destv,
                  observed, touched >>

\* thread_do, l.463-464: job_p = jobqueue_pull(), and the test of job_p.
thread_do_pull(w) ==
  /\ wpc[w] = "pull"
  /\ jobqueue_pull
  /\ job_p' = [job_p EXCEPT ![w] = front]
  /\ wpc' = [v \in Workers |->
               IF v = w THEN (IF front # NULL THEN "call" ELSE "dec")
               ELSE IF pull_len(len) # 0 THEN Broadcast(wpc)[v] ELSE wpc[v]]
  /\ UNCHANGED << poolv, ret, created, countv, thcount_lock, signal_, sem_v,
                  submitted, waitv, cpc, destv, observed, touched >>

\* thread_do, l.465-468: run the job's callable (it appends the job to the
\* observed-order list), then look at job_p->signal_.
thread_do_call(w) ==
  /\ wpc[w] = "call"
  /\ observed' = Append(observed, job_p[w])
  /\ IF signal_[job_p[w]]
       THEN /\ wpc' = [wpc EXCEPT ![w] = "post"]
            /\ UNCHANGED job_p
       ELSE /\ wpc' = [wpc EXCEPT ![w] = "dec"]
            /\ job_p' = [job_p EXCEPT ![w] = NULL]
  /\ UNCHANGED << poolv, ret, created, countv, thcount_lock, queuev, signal_, sem_v,
                  submitted, waitv, cpc, destv, touched >>

\* thread_do, l.469-471: dec_bsem_post (l.684-689) on the job's signal: v--,
\* and a pthread_cond_signal only when v reached 0; then free(job_p).
thread_do_post(w) ==
  /\ wpc[w] = "post"
  /\ sem_v' = sem_v - 1
  /\ cpc' = IF dec_bsem_post_signals(sem_v - 1) /\ cpc = "cond_wait" THEN "wake" ELSE cpc
  /\ wpc' = [wpc EXCEPT ![w] = "dec"]
  /\ job_p' = [job_p EXCEPT ![w] = NULL]
  /\ UNCHANGED << poolv, ret, created, countv, thcount_lock, queuev, signal_,
                  submitted, waitv, destv, observed, touched >>

\* pthread_cond_signal on threads_all_idle (l.477): one of the callers blocked
\* in thpool_wait's pthread_cond_wait is released, if there is any.
SignalAllIdle(pc, pc2) ==
  IF \E a \in Waiters : pc[a] = "cond_wait"
    THEN \E a \in Waiters : pc[a] = "cond_wait" /\ pc2 = [pc EXCEPT ![a] = "wake"]
    ELSE pc2 = pc

\* thread_do, l.474-481: num_threads_working--, and the signal on
\* threads_all_idle when it reached 0, under thcount_lock.
thread_do_dec(w) ==
  /\ wpc[w] = "dec"
  /\ thcount_lock = NoThread
  /\ num_threads_working' = num_threads_working - 1
  /\ IF all_idle_signals(num_threads_working - 1)
       THEN SignalAllIdle(apc, apc')
       ELSE apc' = apc
  /\ wpc' = [wpc EXCEPT ![w] = "loop"]
  /\ UNCHANGED << poolv, ret, created, num_threads_alive, thcount_lock, queuev,
                  signal_, sem_v, job_p, submitted, nworking, asnap, aquiet,
                  cpc, destv, observed, touched >>

\* thread_do, l.484-485: lock thcount_lock, num_threads_alive--.
thread_do_exit_lock(w) ==
  /\ wpc[w] = "exit"
  /\ thcount_lock = NoThread
  /\ thcount_lock' = W(w)
  /\ num_threads_alive' = num_threads_alive - 1
  /\ wpc' = [wpc EXCEPT ![w] = "exit_unlock"]
  /\ UNCHANGED << poolv, ret, created, num_threads_working, queuev, signal_, sem_v,
                  job_p, submitted, waitv, cpc, destv, observed, touched >>

\* thread_do, l.486-488: unlock thcount_lock and return.  When thpool_destroy
\* has already destroyed the mutex and freed the pool (l.335-338) the unlock
\* uses released memory.
thread_do_exit_unlock(w) ==
  /\ wpc[w] = "exit_unlock"
  /\ thcount_lock' = NoThread
  /\ touched' = (touched \/ released)
  /\ wpc' = [wpc EXCEPT ![w] = "done"]
  /\ UNCHANGED << poolv, ret, created, countv, queuev, signal_, sem_v, job_p,
                  submitted, waitv, cpc, destv, observed >>

\* ---------------------------------------------------------------- producers
\* thpool_add_work, l.234-252: a job without a signal is pushed.
thpool_add_work(p) ==
  LET j == JobId(p, submitted[p] + 1) IN
  /\ created /\ dpc = "idle"
  /\ submitted[p] < quota[p]
  /\ j \notin carriers
  /\ signal_' = [signal_ EXCEPT ![j] = FALSE]
  /\ jobqueue_push(j)
  /\ submitted' = [submitted EXCEPT ![p] = @ + 1]
  /\ ret' = [ret EXCEPT ![p] = Append(@, << "job", 0 >>)]
  /\ UNCHANGED << poolv, created, countv, thcount_lock, sem_v, job_p, waitv,
                  cpc, destv, observed, touched >>

\* thpool_add_work_with_sem, l.255-277, with a non-null signal_p: a job that
\* carries the countdown signal is pushed.
thpool_add_work_with_sem(p) ==
  LET j == JobId(p, submitted[p] + 1) IN
  /\ created /\ dpc = "idle"
  /\ submitted[p] < quota[p]
  /\ j \in carriers
  /\ signal_' = [signal_ EXCEPT ![j] = TRUE]
  /\ jobqueue_push(j)
  /\ submitted' = [submitted EXCEPT ![p] = @ + 1]
  /\ ret' = [ret EXCEPT ![p] = Append(@, << "signal", 0 >>)]
  /\ UNCHANGED << poolv, created, countv, thcount_lock, sem_v, job_p, waitv,
                  cpc, destv, observed, touched >>

\* Faulty variant: the job of a call with a null signal is pushed all the same.
thpool_add_work_with_sem_null_pushed(p) ==
  LET j == JobId(p, submitted[p] + 1) IN
  /\ created /\ dpc = "idle"
  /\ submitted[p] < quota[p]
  /\ Cardinality({ i \in 1..Len(ret[p]) : ret[p][i][1] = "null" }) < MaxNull
  /\ signal_' = [signal_ EXCEPT ![j] = FALSE]
  /\ jobqueue_push(j)
  /\ ret' = [ret EXCEPT ![p] = Append(@, << "null", -2 >>)]
  /\ UNCHANGED << poolv, created, countv, thcount_lock, sem_v, job_p, submitted,
                  waitv, cpc, destv, observed, touched >>

\* thpool_add_work_with_sem, l.255-266, with signal_p = NULL: the job is
\* allocated (l.258), the call returns -2 (l.263-266) and the queue is not
\* reached.
thpool_add_work_with_sem_null(p) ==
  /\ created /\ dpc = "idle"
  /\ submitted[p] < quota[p]
  /\ Cardinality({ i \in 1..Len(ret[p]) : ret[p][i][1] = "null" }) < MaxNull
  /\ ret' = [ret EXCEPT ![p] = Append(@, << "null", -2 >>)]
  /\ UNCHANGED << poolv, created, countv, thcount_lock, queuev, signal_, sem_v,
                  wpc, job_p, submitted, waitv, cpc, destv, observed, touched >>

\* thpool_init, l.176-178: a negative argument counts as 0.
thpool_init_num_threads(n) == IF n < 0 THEN 0 ELSE n

\* Faulty variant: thpool_init returns without the poll of l.227.
thpool_init_return_early ==
  /\ ~created
  /\ created' = TRUE
  /\ UNCHANGED << poolv, ret, countv, thcount_lock, queuev, signal_, sem_v, wpc,
                  job_p, submitted, waitv, cpc, destv, observed, touched >>

\* thpool_init, l.227-229: the creator leaves its poll of num_threads_alive.
thpool_init_return ==
  /\ ~created
  /\ num_threads_alive = num_threads
  /\ created' = TRUE
  /\ UNCHANGED << poolv, ret, countv, thcount_lock, queuev, signal_, sem_v, wpc,
                  job_p, submitted, waitv, cpc, destv, observed, touched >>

\* -------------------------------------------------------------- thpool_wait
\* thpool_wait is called (l.281); the history variables record what had been
\* submitted by then.
thpool_wait_call(a) ==
  /\ apc[a] = "idle"
  /\ created /\ dpc = "idle"
  /\ apc' = [apc EXCEPT ![a] = "lock"]
  /\ asnap' = [asnap EXCEPT ![a] = Range(pushed)]
  /\ aquiet' = [aquiet EXCEPT ![a] = AllSubmitted]
  /\ UNCHANGED << poolv, ret, created, countv, thcount_lock, queuev, signal_, sem_v,
                  wpc, job_p, submitted, nworking, cpc, destv, observed,
                  touched >>

\* thpool_wait, l.282: pthread_mutex_lock(thcount_lock).
thpool_wait_lock(a) ==
  /\ apc[a] = "lock"
  /\ thcount_lock = NoThread
  /\ thcount_lock' = A(a)
  /\ apc' = [apc EXCEPT ![a] = "test"]
  /\ UNCHANGED << poolv, ret, created, countv, queuev, signal_, sem_v, wpc, job_p,
                  submitted, nworking, asnap, aquiet, cpc, destv, observed,
                  touched >>

\* thpool_wait, l.283-284: the loop's test, made holding thcount_lock but not
\* the queue's rwmutex; pthread_cond_wait releases thcount_lock.  The two
\* reads are one step: num_threads_working cannot change while this thread
\* owns thcount_lock, so its value is the one at the moment len is read.
thpool_wait_test(a) ==
  /\ apc[a] = "test"
  /\ IF thpool_wait_blocks(len, num_threads_working)
       THEN /\ apc' = [apc EXCEPT ![a] = "cond_wait"]
            /\ thcount_lock' = NoThread
       ELSE /\ apc' = [apc EXCEPT ![a] = "unlock"]
            /\ UNCHANGED thcount_lock
  /\ UNCHANGED << poolv, ret, created, countv, queuev, signal_, sem_v, wpc, job_p,
                  submitted, nworking, asnap, aquiet, cpc, destv, observed,
                  touched >>

\* thpool_wait, l.284-285: pthread_cond_wait returns with thcount_lock
\* re-acquired; DO_SLEEP0ms; back to the test.
thpool_wait_wake(a) ==
  /\ apc[a] = "wake"
  /\ thcount_lock = NoThread
  /\ thcount_lock' = A(a)
  /\ apc' = [apc EXCEPT ![a] = "test"]
  /\ UNCHANGED << poolv, ret, created, countv, queuev, signal_, sem_v, wpc, job_p,
                  submitted, nworking, asnap, aquiet, cpc, destv, observed,
                  touched >>

\* thpool_wait, l.287-288: unlock and return.
thpool_wait_unlock(a) ==
  /\ apc[a] = "unlock"
  /\ thcount_lock' = NoThread
  /\ apc' = [apc EXCEPT ![a] = "returned"]
  /\ UNCHANGED << poolv, ret, created, countv, queuev, signal_, sem_v, wpc, job_p,
                  submitted, nworking, asnap, aquiet, cpc, destv, observed,
                  touched >>

\* thpool_num_threads_working, l.352-354, called right after thpool_wait.
thpool_num_threads_working(a) ==
  /\ apc[a] = "returned"
  /\ nworking' = [nworking EXCEPT ![a] = num_threads_working]
  /\ apc' = [apc EXCEPT ![a] = "done"]
  /\ UNCHANGED << poolv, ret, created, countv, thcount_lock, queuev, signal_, sem_v,
                  wpc, job_p, submitted, asnap, aquiet, cpc, destv, observed,
                  touched >>

\* A spurious return of the pthread_cond_wait of thpool_wait (l.284), which
\* POSIX allows.
SpuriousWakeupWait(a) ==
  /\ apc[a] = "cond_wait"
  /\ apc' = [apc EXCEPT ![a] = "wake"]
  /\ UNCHANGED << poolv, ret, created, countv, thcount_lock, queuev, signal_, sem_v,
                  wpc, job_p, submitted, nworking, asnap, aquiet, cpc, destv,
                  observed, touched >>

\* A spurious return of the pthread_cond_wait of bsem_wait (l.658).
SpuriousWakeupWorker(w) ==
  /\ wpc[w] = "parked"
  /\ wpc' = [wpc EXCEPT ![w] = "bsem_wait"]
  /\ UNCHANGED << poolv, ret, created, countv, thcount_lock, queuev, signal_, sem_v,
                  job_p, submitted, waitv, cpc, destv, observed, touched >>

\* --------------------------------------------------------- thpool_wait_cond
\* thpool_wait_cond, l.290-293: dec_bsem_wait (l.700-707) tests v under the
\* signal's mutex and blocks in pthread_cond_wait while it is not 0; then
\* v = 0, unlock, bsem_destroy.
dec_bsem_wait ==
  /\ cpc \in {"idle", "wake"}
  /\ created
  /\ IF dec_bsem_wait_blocks(sem_v)
       THEN cpc' = "cond_wait" /\ UNCHANGED sem_v
       ELSE cpc' = "returned" /\ sem_v' = 0
  /\ UNCHANGED << poolv, ret, created, countv, thcount_lock, queuev, signal_, wpc,
                  job_p, submitted, waitv, destv, observed, touched >>

\* A spurious return of the pthread_cond_wait of dec_bsem_wait (l.703).
SpuriousWakeupCond ==
  /\ cpc = "cond_wait"
  /\ cpc' = "wake"
  /\ UNCHANGED << poolv, ret, created, countv, thcount_lock, queuev, signal_, sem_v,
                  wpc, job_p, submitted, waitv, destv, observed, touched >>

\* ----------------------------------------------------------- thpool_destroy
\* thpool_destroy, l.306-309: threads_keepalive = 0.  The caller destroys a
\* pool that no other caller is using.
thpool_destroy_begin ==
  /\ dpc = "idle"
  /\ created
  /\ \A a \in Waiters : apc[a] \in {"off", "idle", "returned", "done"}
  /\ cpc \in {"off", "idle", "returned"}
  /\ threads_keepalive' = 0
  /\ dpc' = "grace"
  /\ UNCHANGED << poolv, ret, created, countv, thcount_lock, queuev, signal_, sem_v,
                  wpc, job_p, submitted, waitv, cpc, released, observed,
                  touched >>

\* thpool_destroy, l.316-320: one turn of the grace loop.  num_threads_alive
\* is read without thcount_lock; while it is not 0, bsem_post_all(has_jobs)
\* (l.647-652); the second has passed (next = "poll") or not (next = "grace").
thpool_destroy_grace(next) ==
  /\ dpc = "grace"
  /\ IF num_threads_alive # 0
       THEN /\ has_jobs_v' = 1
            /\ wpc' = Broadcast(wpc)
            /\ dpc' = next
       ELSE /\ dpc' = "poll"
            /\ UNCHANGED << has_jobs_v, wpc >>
  /\ UNCHANGED << poolv, ret, created, countv, thcount_lock, front, rear, prev, len,
                  pushed, pulled, signal_, sem_v, job_p, submitted, waitv, cpc,
                  released, threads_keepalive, observed, touched >>

\* thpool_destroy, l.323-326: one turn of the poll loop.
thpool_destroy_poll ==
  /\ dpc = "poll"
  /\ IF num_threads_alive # 0
       THEN /\ has_jobs_v' = 1
            /\ wpc' = Broadcast(wpc)
            /\ UNCHANGED dpc
       ELSE /\ dpc' = "clear"
            /\ UNCHANGED << has_jobs_v, wpc >>
  /\ UNCHANGED << poolv, ret, created, countv, thcount_lock, front, rear, prev, len,
                  pushed, pulled, signal_, sem_v, job_p, submitted, waitv, cpc,
                  released, threads_keepalive, observed, touched >>

\* Faulty variant: the clear posts the signal of the job it discards.
thpool_destroy_clear_posted ==
  /\ dpc = "clear"
  /\ len # 0
  /\ jobqueue_pull
  /\ wpc' = (IF pull_len(len) # 0 THEN Broadcast(wpc) ELSE wpc)
  /\ sem_v' = IF signal_[front] THEN sem_v - 1 ELSE sem_v
  /\ cpc' = IF signal_[front] /\ dec_bsem_post_signals(sem_v - 1) /\ cpc = "cond_wait"
              THEN "wake" ELSE cpc
  /\ UNCHANGED << poolv, ret, created, countv, thcount_lock, signal_, job_p,
                  submitted, waitv, destv, observed, touched >>

\* thpool_destroy, l.329 -> jobqueue_destroy -> jobqueue_clear, l.523-525: one
\* turn of the loop that pulls a pending job and frees it unrun.
thpool_destroy_clear ==
  /\ dpc = "clear"
  /\ len # 0
  /\ jobqueue_pull
  /\ wpc' = (IF pull_len(len) # 0 THEN Broadcast(wpc) ELSE wpc)
  /\ UNCHANGED << poolv, ret, created, countv, thcount_lock, signal_, sem_v, job_p,
                  submitted, waitv, cpc, destv, observed, touched >>

\* jobqueue_clear, l.527-530, jobqueue_destroy, l.607-608, and thpool_destroy,
\* l.331-338: the queue, has_jobs, thcount_lock, threads_all_idle and the pool
\* are destroyed and freed.
thpool_destroy_free ==
  /\ dpc = "clear"
  /\ len = 0
  /\ front' = NULL /\ rear' = NULL /\ len' = 0 /\ has_jobs_v' = 0
  /\ released' = TRUE
  /\ dpc' = "done"
  /\ UNCHANGED << poolv, ret, created, countv, thcount_lock, prev, pushed, pulled,
                  signal_, sem_v, wpc, job_p, submitted, waitv, cpc,
                  threads_keepalive, observed, touched >>

\* ------------------------------------------------------------ specifications
\* The state in which thpool_init (l.171-225) has created the queue and the
\* threads and polls num_threads_alive (l.227); nobody has called anything.
InitPool(n, q, c) ==
  /\ num_threads_arg = n
  /\ num_threads = thpool_init_num_threads(n)
  /\ ret = [p \in Producers |-> << >>]
  /\ quota = q
  /\ carriers = c
  /\ created = FALSE
  /\ num_threads_alive = 0
  /\ num_threads_working = 0
  /\ threads_keepalive = 1
  /\ thcount_lock = NoThread
  /\ front = NULL /\ rear = NULL /\ len = 0
  /\ prev = [j \in Jobs |-> NULL]
  /\ has_jobs_v = 0
  /\ signal_ = [j \in Jobs |-> FALSE]
  /\ sem_v = Cardinality(c)
  /\ wpc = [w \in Workers |-> IF w <= n THEN "alive" ELSE "off"]
  /\ job_p = [w \in Workers |-> NULL]
  /\ submitted = [p \in Producers |-> 0]
  /\ nworking = [a \in Waiters |-> 0]
  /\ dpc = "idle"
  /\ released = FALSE
  /\ pushed = << >> /\ pulled = << >> /\ observed = << >>
  /\ asnap = [a \in Waiters |-> {}]
  /\ aquiet = [a \in Waiters |-> FALSE]
  /\ touched = FALSE

\* M callers that submit N jobs each.
Quota(M, N) == [p \in Producers |-> IF p <= M THEN N ELSE 0]

\* The (M, N) with at most MaxJobs jobs in all.
Loads == { mn \in (1..MaxJobs) \X (1..MaxJobs) : mn[1] * mn[2] <= MaxJobs }

\* thpool_init(n) for n in -1..MaxThreads; M callers submit N jobs each through
\* thpool_add_work; one caller of thpool_wait.
Init ==
  /\ \E n \in (-1)..MaxThreads, mn \in Loads : InitPool(n, Quota(mn[1], mn[2]), {})
  /\ apc = [a \in Waiters |-> IF a = 1 THEN "idle" ELSE "off"]
  /\ cpc = "off"

WorkerStep(w) ==
  \/ thread_do_alive(w)
  \/ thread_do_loop(w)
  \/ bsem_wait(w)
  \/ thread_do_check(w)
  \/ thread_do_inc(w)
  \/ thread_do_pull(w)
  \/ thread_do_call(w)
  \/ thread_do_dec(w)

WaitStep(a) ==
  \/ thpool_wait_call(a)
  \/ thpool_wait_lock(a)
  \/ thpool_wait_test(a)
  \/ thpool_wait_wake(a)
  \/ thpool_wait_unlock(a)
  \/ thpool_num_threads_working(a)

\* Workers, callers of thpool_add_work and one caller of thpool_wait.
NextRun ==
  \/ thpool_init_return
  \/ \E w \in Workers : WorkerStep(w)
  \/ \E p \in Producers : thpool_add_work(p)
  \/ \E a \in Waiters : WaitStep(a)

Next ==
  \/ NextRun
  \/ \E a \in Waiters : SpuriousWakeupWait(a)
  \/ \E w \in Workers : SpuriousWakeupWorker(w)

Spec == Init /\ [][Next]_vars

\* One caller submits N in 1..MaxJobs jobs; one caller of thpool_wait.
InitLive ==
  /\ \E n \in 0..MaxThreads, N \in 1..MaxJobs : InitPool(n, Quota(1, N), {})
  /\ apc = [a \in Waiters |-> IF a = 1 THEN "idle" ELSE "off"]
  /\ cpc = "off"

\* Fair scheduling: every thread that can take a step eventually takes one,
\* and every callable returns.  Spurious wakeups are left out: nothing obliges
\* them to happen.
SpecLive ==
  /\ InitLive /\ [][NextRun]_vars
  /\ WF_vars(thpool_init_return)
  /\ \A w \in Workers : WF_vars(WorkerStep(w))
  /\ \A p \in Producers : WF_vars(thpool_add_work(p))
  /\ \A a \in Waiters : WF_vars(WaitStep(a))

\* ---- the countdown signal: one caller submits MaxJobs jobs, any K of them
\* through thpool_add_work_with_sem with the signal that thpool_decsem_init
\* set to K, and a caller of thpool_wait_cond.
InitSem ==
  /\ \E n \in 0..MaxThreads, c \in SUBSET Jobs : InitPool(n, Quota(1, MaxJobs), c)
  /\ apc = [a \in Waiters |-> "off"]
  /\ cpc = "idle"

SemWorkerStep(w) == WorkerStep(w) \/ thread_do_post(w)

SemSubmit(p) == thpool_add_work(p) \/ thpool_add_work_with_sem(p)

NextSem ==
  \/ thpool_init_return
  \/ \E w \in Workers : SemWorkerStep(w)
  \/ \E p \in Producers : SemSubmit(p)
  \/ dec_bsem_wait
  \/ SpuriousWakeupCond
  \/ \E w \in Workers : SpuriousWakeupWorker(w)

SpecSem == InitSem /\ [][NextSem]_vars

\* The protocol of thpool_decsem_init: the caller sets the signal to K in
\* 0..MaxJobs and submits K jobs, every one with the signal; a caller of
\* thpool_wait_cond.
InitSemLive ==
  /\ \E n \in 0..MaxThreads, K \in 0..MaxJobs : InitPool(n, Quota(1, K), 1..K)
  /\ apc = [a \in Waiters |-> "off"]
  /\ cpc = "idle"

NextSemLive ==
  \/ thpool_init_return
  \/ \E w \in Workers : SemWorkerStep(w)
  \/ \E p \in Producers : thpool_add_work_with_sem(p)
  \/ dec_bsem_wait

\* Fair scheduling, as in SpecLive.
SpecSemLive ==
  /\ InitSemLive /\ [][NextSemLive]_vars
  /\ WF_vars(thpool_init_return)
  /\ \A w \in Workers : WF_vars(SemWorkerStep(w))
  /\ \A p \in Producers : WF_vars(thpool_add_work_with_sem(p))
  /\ WF_vars(dec_bsem_wait)

\* ---- shutdown: one caller submits N in 1..MaxJobs jobs, and thpool_destroy
\* is called at any moment after thpool_init returned.
InitDestroy ==
  /\ \E n \in 0..MaxThreads, N \in 1..MaxJobs : InitPool(n, Quota(1, N), {})
  /\ apc = [a \in Waiters |-> "off"]
  /\ cpc = "off"

ExitWorkerStep(w) ==
  \/ WorkerStep(w)
  \/ thread_do_exit_lock(w)
  \/ thread_do_exit_unlock(w)

DestroyStep ==
  \/ \E next \in {"grace", "poll"} : thpool_destroy_grace(next)
  \/ thpool_destroy_poll
  \/ thpool_destroy_clear
  \/ thpool_destroy_free

NextDestroy ==
  \/ thpool_init_return
  \/ \E w \in Workers : ExitWorkerStep(w)
  \/ \E p \in Producers : thpool_add_work(p)
  \/ thpool_destroy_begin
  \/ DestroyStep
  \/ \E w \in Workers : SpuriousWakeupWorker(w)

\* Fair scheduling of the workers and of the thread inside thpool_destroy;
\* nothing obliges a caller to submit or to call thpool_destroy.
SpecDestroy ==
  /\ InitDestroy /\ [][NextDestroy]_vars
  /\ \A w \in Workers : WF_vars(ExitWorkerStep(w))
  /\ WF_vars(DestroyStep)

\* ---- submissions: one caller submits MaxJobs jobs, any of them with the
\* countdown signal, and makes up to MaxNull calls of thpool_add_work_with_sem
\* with a null signal in between.
InitSubmit ==
  /\ \E n \in 0..MaxThreads, c \in SUBSET Jobs : InitPool(n, Quota(1, MaxJobs), c)
  /\ apc = [a \in Waiters |-> "off"]
  /\ cpc = "off"

NextSubmit ==
  \/ thpool_init_return
  \/ \E w \in Workers : SemWorkerStep(w)
  \/ \E p \in Producers : SemSubmit(p)
  \/ \E p \in Producers : thpool_add_work_with_sem_null(p)

SpecSubmit == InitSubmit /\ [][NextSubmit]_vars

\* ---- shutdown with countdown signal: one caller sets the signal to K in
\* 1..MaxJobs and submits K jobs with it; thpool_destroy is called at any
\* moment after thpool_init returned, thpool_wait_cond at any moment.
InitDestroySem ==
  /\ \E n \in 0..MaxThreads, K \in 1..MaxJobs : InitPool(n, Quota(1, K), 1..K)
  /\ apc = [a \in Waiters |-> "off"]
  /\ cpc = "idle"

NextDestroySem ==
  \/ thpool_init_return
  \/ \E w \in Workers : ExitWorkerStep(w) \/ thread_do_post(w)
  \/ \E p \in Producers : thpool_add_work_with_sem(p)
  \/ dec_bsem_wait
  \/ thpool_destroy_begin
  \/ DestroyStep

SpecDestroySem == InitDestroySem /\ [][NextDestroySem]_vars

\* ---- two callers of thpool_wait: one caller submits N in 1..MaxJobs jobs.
InitWaitTwo ==
  /\ \E n \in 0..MaxThreads, N \in 1..MaxJobs : InitPool(n, Quota(1, N), {})
  /\ apc = [a \in Waiters |-> "idle"]
  /\ cpc = "off"

\* Fair scheduling, as in SpecLive.
SpecWaitTwo ==
  /\ InitWaitTwo /\ [][NextRun]_vars
  /\ WF_vars(thpool_init_return)
  /\ \A w \in Workers : WF_vars(WorkerStep(w))
  /\ \A p \in Producers : WF_vars(thpool_add_work(p))
  /\ \A a \in Waiters : WF_vars(WaitStep(a))

\* ====================================================================== claims
\* The jobs the callers submit in all: M * N of them.
Submittable == { JobId(p, i) : p \in Producers, i \in 1..MaxJobs } \cap
               { j \in Jobs : \E p \in Producers : \E i \in 1..quota[p] : j = JobId(p, i) }
\* thpool_wait has returned to caller a.
Returned(a) == apc[a] \in {"returned", "done"}
\* The carriers whose dec_bsem_post has been made.
Posted == { j \in carriers : j \in Range(observed)
                             /\ ~ \E w \in Workers : wpc[w] = "post" /\ job_p[w] = j }

\* C1: with M callers submitting N jobs each, no job's callable is ever
\* invoked twice, and once a thpool_wait that was called after all the
\* submissions has returned, every one of the M*N jobs has run exactly once.
C1_ExactlyOnce ==
  /\ \A j \in Jobs : Times(observed, j) <= 1
  /\ \A a \in Waiters :
       (Returned(a) /\ aquiet[a]) =>
         /\ Len(observed) = Cardinality(Submittable)
         /\ \A j \in Submittable : Times(observed, j) = 1

C1_Witness ==
  /\ num_threads = 2 /\ quota[1] = 1 /\ quota[2] = 1
  /\ apc[1] = "done" /\ aquiet[1]
  /\ Len(observed) = 2

\* C2 as stated: at the moment thpool_wait returns (it is about to unlock
\* thcount_lock and return) the queue length is 0 and the working-count is 0.
C2_ReturnsDrained ==
  \A a \in Waiters :
    apc[a] = "unlock" => (len = 0 /\ num_threads_working = 0)

\* C2 amended: at the moment thpool_wait returns the working-count is 0, no
\* worker is between dequeuing a job and finishing its callable, and every job
\* submitted before thpool_wait was called has run; the queue length is 0 too
\* when no submission was still to come when thpool_wait was called.
C2_ReturnsIdle ==
  \A a \in Waiters :
    /\ apc[a] = "unlock" =>
         /\ num_threads_working = 0
         /\ \A w \in Workers : wpc[w] \notin {"call", "post"} /\ job_p[w] = NULL
         /\ aquiet[a] => len = 0
    /\ (apc[a] = "unlock" \/ Returned(a)) => asnap[a] \subseteq Range(observed)

C2_Witness ==
  /\ apc[1] = "unlock" /\ asnap[1] # {} /\ ~aquiet[1]
  /\ len > 0

\* C3: after thpool_wait has returned, with every submission made before it
\* was called, the thpool_num_threads_working that follows reads 0.
C3_NumWorkingZero ==
  \A a \in Waiters :
    (apc[a] = "done" /\ aquiet[a]) => nworking[a] = 0

\* C4: in a pool with at least one worker, under fair scheduling, the caller
\* that entered thpool_wait eventually returns from it.
C4_WaitReturns ==
  (num_threads >= 1 /\ apc[1] = "lock") ~> Returned(1)

C4_Witness ==
  /\ apc[1] = "wake" /\ AllSubmitted /\ len = 0 /\ num_threads_working = 0
  /\ Len(observed) = Cardinality(Submittable)

\* C5: the jobs are pulled in the order they were pushed: the sequence of
\* pulled jobs is always a prefix of the sequence of pushed jobs.
C5_Fifo == IsPrefix(pulled, pushed)

C5_Witness ==
  /\ num_threads = 2 /\ quota[2] = 1
  /\ Len(pulled) = 2 /\ job_p[1] # NULL /\ job_p[2] # NULL

\* C6 as stated: one caller submits N jobs to a pool with any number of
\* workers; after thpool_wait the observed order is 1..N.
C6_ExecOrder ==
  \A a \in Waiters :
    (Returned(a) /\ aquiet[a] /\ quota[1] = Cardinality(Submittable)) =>
      observed = [i \in 1..quota[1] |-> i]

\* C6 amended: one caller submits N jobs to a pool with exactly one worker;
\* the callables run in submission order, so after thpool_wait the observed
\* order is 1..N.
C6_ExecOrderOneWorker ==
  (num_threads = 1 /\ quota[1] = Cardinality(Submittable)) =>
    /\ IsPrefix(observed, pushed)
    /\ \A a \in Waiters :
         (Returned(a) /\ aquiet[a]) => observed = [i \in 1..quota[1] |-> i]

C6_Witness ==
  /\ num_threads = 1 /\ quota[1] = 2 /\ Returned(1) /\ aquiet[1]
  /\ observed = << 1, 2 >>

\* C7: thpool_wait_cond returns only after every job that carries the signal
\* has run, and until then the signal's counter is K minus the number of
\* carriers that have posted: no other job decrements it.
C7_WaitCond ==
  /\ cpc = "returned" => carriers \subseteq Range(observed)
  /\ cpc # "returned" => sem_v = Cardinality(carriers) - Cardinality(Posted)

C7_Witness ==
  /\ cpc = "returned" /\ carriers = {2} /\ observed = << 1, 2 >>

\* C8: in a pool with at least one worker, under fair scheduling, the caller
\* of thpool_wait_cond eventually returns; with K = 0 it never blocks.
C8_WaitCondReturns ==
  /\ [](carriers = {} => cpc \notin {"cond_wait", "wake"})
  /\ (num_threads >= 1) ~> (cpc = "returned")

C8_Witness ==
  /\ cpc = "wake" /\ sem_v = 0 /\ Cardinality(carriers) = 2

\* C9: under fair scheduling thpool_destroy, once called, returns.
C9_DestroyReturns == (dpc = "grace") ~> (dpc = "done")

C9_Witness ==
  /\ dpc = "done" /\ num_threads = 2
  /\ Len(observed) = 1 /\ Len(pushed) = 2

\* C10: when thpool_destroy has left its polling loops (it is releasing the
\* queue, or has released everything) num_threads_alive is 0 and no worker
\* has a step left to take.
C10_NoWorkerLeft ==
  dpc \in {"clear", "done"} =>
    /\ num_threads_alive = 0
    /\ \A w \in Workers : wpc[w] \in {"off", "done"}

\* C11: a call of thpool_add_work_with_sem with a null signal returns -2 and
\* leaves the queue (front, rear, links, len), has_jobs and every worker as
\* they were; a call of thpool_add_work, or of thpool_add_work_with_sem with a
\* signal, returns 0 and appends exactly one job at the rear.
C11_SubmitResult ==
  [][ \A p \in Producers :
        Len(ret'[p]) = Len(ret[p]) + 1 =>
          LET call == ret'[p][Len(ret'[p])] IN
          /\ call[1] = "null" =>
               /\ call[2] = -2
               /\ UNCHANGED << front, rear, prev, len, has_jobs_v, pushed, wpc >>
          /\ call[1] # "null" =>
               /\ call[2] = 0
               /\ len' = len + 1
               /\ Len(pushed') = Len(pushed) + 1
               /\ rear' = pushed'[Len(pushed')]
               /\ has_jobs_v' = 1
               /\ IF len = 0 THEN front' = rear'
                             ELSE front' = front /\ prev'[rear] = rear' ]_vars

C11_Witness ==
  /\ Len(ret[1]) = 3 /\ ret[1][2] = << "null", -2 >>
  /\ Len(pushed) = 2 /\ len = 2

\* C12: thpool_init(n) has returned only if num_threads_alive is n, every one
\* of the n workers having made its increment of l.446-448; for a negative n
\* that is 0 workers and num_threads_alive 0.  (No thpool_destroy here, which
\* is what lowers the count again.)
C12_CreateBarrier ==
  LET n == IF num_threads_arg < 0 THEN 0 ELSE num_threads_arg IN
  created =>
    /\ num_threads_alive = n
    /\ \A w \in Workers : IF w <= n THEN wpc[w] \notin {"off", "alive"}
                                    ELSE wpc[w] = "off"

C12_Witness ==
  /\ created /\ num_threads_arg = 2 /\ num_threads_alive = 2
  /\ len = 0 /\ Len(observed) = 1

\* C13: in a pool of 0 workers to which nothing has been submitted, a caller
\* of thpool_wait is never blocked on threads_all_idle: its loop test lets it
\* through, and len and num_threads_working are 0.
C13_EmptyPoolWait ==
  (num_threads = 0 /\ pushed = << >>) =>
    /\ len = 0 /\ num_threads_working = 0
    /\ \A a \in Waiters :
         /\ apc[a] \notin {"cond_wait", "wake"}
         /\ apc[a] = "test" => ~thpool_wait_blocks(len, num_threads_working)

C13_Witness ==
  /\ num_threads = 0 /\ pushed = << >> /\ created
  /\ apc[1] = "returned" /\ asnap[1] = {}

\* C14: whenever thcount_lock is not held, 0 <= num_threads_working <=
\* num_threads_alive <= num_threads, from the start of the workers through
\* jobs, wake-ups that find no job, and shutdown.
C14_CountsOrdered ==
  thcount_lock = NoThread =>
    /\ 0 <= num_threads_working
    /\ num_threads_working <= num_threads_alive
    /\ num_threads_alive <= num_threads

C14_Witness ==
  /\ thcount_lock = NoThread /\ num_threads = 2
  /\ num_threads_working = 1 /\ num_threads_alive = 1
  /\ \E w \in Workers : wpc[w] = "done"
  /\ \E w \in Workers : wpc[w] = "dec" /\ job_p[w] = NULL

\* C15: before thpool_destroy is called, has_jobs->v is 0 or 1 and it is 1
\* exactly when len > 0; a push leaves it 1, and it goes from 1 to 0 only in a
\* pull that leaves the queue empty.
C15_HasJobsTracksLen ==
  /\ [](dpc = "idle" =>
          /\ has_jobs_v \in {0, 1}
          /\ has_jobs_v = 1 <=> len > 0)
  /\ [][ dpc = "idle" =>
           /\ Len(pushed') > Len(pushed) => has_jobs_v' = 1
           /\ (has_jobs_v = 1 /\ has_jobs_v' = 0) =>
                /\ Len(pulled') = Len(pulled) + 1
                /\ len = 1 /\ len' = 0 ]_vars

C15_Witness ==
  /\ dpc = "idle" /\ has_jobs_v = 0 /\ len = 0 /\ Len(pulled) = 2
  /\ \E w \in Workers : wpc[w] = "check"

\* C16: in a pool with at least one worker, keepalive set (no thpool_destroy),
\* callables that return and fair scheduling, every job pushed onto the queue
\* is eventually pulled by a worker: the queue never stays non-empty with the
\* workers parked in bsem_wait.  (pulled is a prefix of pushed, so the jobs
\* pushed by now have all been pulled once the two are equal.)
C16_NoStuckQueue ==
  (num_threads >= 1 /\ pulled # pushed) ~> (pulled = pushed)

C16_Witness ==
  /\ num_threads = 2 /\ \A w \in Workers : wpc[w] = "parked"
  /\ Len(pushed) = 2 /\ pulled = pushed /\ has_jobs_v = 0

\* C17: a wake-up that finds the queue emptied by a racing worker is not
\* counted as work: num_threads_working never exceeds the number of workers
\* that hold a dequeued job.
C17_NoOpNotCounted ==
  num_threads_working <= Cardinality({ w \in Workers : job_p[w] # NULL })

\* C18 as stated: once threads_keepalive is 0, no worker dequeues a job.
C18_NoPullAfterStop ==
  [][ threads_keepalive = 0 =>
        \A w \in Workers : job_p'[w] # job_p[w] => job_p'[w] = NULL ]_vars

\* C18 amended: once threads_keepalive is 0, no worker passes the test of
\* l.454 any more; only a worker that had passed it before makes one more
\* pull (l.457-463), and a worker that dequeued a job finishes it; then every
\* worker leaves its loop and decrements num_threads_alive.
C18_NoNewPassAfterStop ==
  /\ [][ threads_keepalive = 0 =>
           \A w \in Workers :
             /\ wpc'[w] = "inc" => wpc[w] = "inc"
             /\ wpc'[w] = "pull" => wpc[w] \in {"inc", "pull"}
             /\ job_p'[w] # job_p[w] =>
                  \/ wpc[w] = "pull" /\ job_p'[w] = front
                  \/ job_p[w] \in Range(observed') /\ job_p'[w] = NULL ]_vars
  /\ (threads_keepalive = 0) ~>
       (num_threads_alive = 0 /\ \A w \in Workers : job_p[w] = NULL)

C18_Witness ==
  /\ threads_keepalive = 0 /\ dpc = "grace" /\ len = 2
  /\ \E w \in Workers : wpc[w] = "pull" /\ job_p[w] = NULL

\* C19: the jobs still in the queue when thpool_destroy has seen every worker
\* exit are pulled and freed by jobqueue_clear without their callable being
\* run, then or later, and thpool_destroy never decrements a countdown
\* signal: a caller of thpool_wait_cond whose jobs were discarded is not
\* released.
C19_PendingDiscarded ==
  /\ [][ (dpc = "clear" \/ dpc = "done") =>
           /\ observed' = observed
           /\ sem_v' = sem_v
           /\ cpc' = "returned" => (cpc = "returned" \/ sem_v = 0)
           /\ cpc' = "wake" => cpc = "wake" ]_vars
  /\ [](dpc = "done" =>
          /\ len = 0 /\ Range(pulled) = Range(pushed)
          /\ cpc # "returned" =>
               sem_v = Cardinality(carriers) - Cardinality(Posted)
          /\ ~(carriers \subseteq Range(observed)) =>
               sem_v > 0 /\ cpc # "returned")

C19_Witness ==
  /\ dpc = "done" /\ num_threads = 1 /\ Len(pushed) = 2 /\ observed = << 1 >>
  /\ sem_v = 1 /\ cpc = "cond_wait"

\* C20: in a pool with at least one worker, under fair scheduling, when two
\* callers are blocked in thpool_wait's pthread_cond_wait at the same time,
\* each of them eventually returns.
C20_AllWaitersReturn ==
  \A a \in Waiters :
    (num_threads >= 1 /\ \A b \in Waiters : apc[b] = "cond_wait") ~> Returned(a)

====
